---- MODULE Spec2Model ----
(***************************************************************************)
(* A model of dj_rql's RQLFilterClass (filter_cls.py) and of the           *)
(* RQL-to-ORM transformer (transformer.py).                                *)
(*                                                                         *)
(* Strings are sequences of atoms.  An atom is one character ("a", "*",    *)
(* a backslash, a quote, ".", "-", "+") or one identifier word that holds  *)
(* none of these characters ("age", "null").  Concatenation is \o, so      *)
(* slicing, splitting and prefix tests are those of the Python code.       *)
(***************************************************************************)
EXTENDS Integers, Sequences, FiniteSets, TLC

VARIABLES
    filters,              \* self.filters: public filter name -> registry entry
    ordering_filters,     \* self.ordering_filters
    search_filters,       \* self.search_filters
    _select_tree,         \* self._select_tree
    _default_exclusions,  \* self._default_exclusions
    queryset,             \* self.queryset
    _is_distinct,         \* self._is_distinct
    pc,                   \* "idle" | "call" (an operation is about to run) | "done"
    call,                 \* the operation that runs, with its arguments
    result                \* what the operation returned or raised

vars == <<filters, ordering_filters, search_filters, _select_tree,
          _default_exclusions, queryset, _is_distinct, pc, call, result>>

registry == <<filters, ordering_filters, search_filters, _select_tree,
              _default_exclusions>>

(***************************************************************************)
(* Bounds of the model.                                                    *)
(***************************************************************************)
MaxLen == 4

(***************************************************************************)
(* Reserved literals and operator names (dj_rql.constants).                *)
(***************************************************************************)
RQL_ANY_SYMBOL == "*"
RQL_NULL == <<"null">>
RQL_EMPTY == <<"empty()">>
RQL_TRUE == <<"true">>
RQL_FALSE == <<"false">>
RQL_SEARCH_PARAM == <<"search">>
BACKSLASH == "\\"
QUOTES == {"\"", "'"}

ComparisonOperators == {"eq", "ne", "lt", "le", "gt", "ge"}
SearchOperators == {"like", "ilike"}
ListOperators == {"in", "out"}
None == "None"

(***************************************************************************)
(* String helpers: Python's str methods on sequences of atoms.             *)
(***************************************************************************)
\* the least i with s[i] = x /\ s[i+1] = y, or 0
RECURSIVE FindPair(_, _, _, _)
FindPair(s, x, y, i) ==
    IF i + 1 > Len(s) THEN 0
    ELSE IF s[i] = x /\ s[i + 1] = y THEN i
    ELSE FindPair(s, x, y, i + 1)

\* s.split(x + y)
RECURSIVE SplitPair(_, _, _)
SplitPair(s, x, y) ==
    LET i == FindPair(s, x, y, 1) IN
    IF i = 0 THEN <<s>>
    ELSE <<SubSeq(s, 1, i - 1)>> \o SplitPair(SubSeq(s, i + 2, Len(s)), x, y)

\* s.replace(x + y, <<z>>)
RECURSIVE ReplacePair(_, _, _, _)
ReplacePair(s, x, y, z) ==
    LET i == FindPair(s, x, y, 1) IN
    IF i = 0 THEN s
    ELSE SubSeq(s, 1, i - 1) \o <<z>> \o ReplacePair(SubSeq(s, i + 2, Len(s)), x, y, z)

\* s.replace(x, z), z a string
RECURSIVE Replace(_, _, _)
Replace(s, x, z) ==
    IF s = <<>> THEN <<>>
    ELSE (IF Head(s) = x THEN z ELSE <<Head(s)>>) \o Replace(Tail(s), x, z)

\* sep.join(pieces)
RECURSIVE Join(_, _)
Join(pieces, sep) ==
    IF Len(pieces) = 1 THEN pieces[1]
    ELSE pieces[1] \o <<sep>> \o Join(Tail(pieces), sep)

\* s.count(x)
RECURSIVE Count(_, _)
Count(s, x) ==
    IF s = <<>> THEN 0 ELSE (IF Head(s) = x THEN 1 ELSE 0) + Count(Tail(s), x)

Contains(s, x) == \E i \in 1..Len(s) : s[i] = x

remove_quotes(str_value) ==
    IF Len(str_value) > 0 /\ str_value[1] \in QUOTES
    THEN SubSeq(str_value, 2, Len(str_value) - 1)
    ELSE str_value

(***************************************************************************)
(* Wildcard patterns.                                                      *)
(***************************************************************************)
\* uuid4().hex: an atom no query holds
star_replacer == "uuid4hex"

\* mutant: an escaped wildcard is not protected
_reflect_like_value_NoEscape(str_value) ==
    Join(SplitPair(remove_quotes(str_value), BACKSLASH, BACKSLASH), BACKSLASH)

_reflect_like_value(str_value) ==
    LET Reflect(pieces) ==
            Join([i \in 1..Len(pieces) |->
                      ReplacePair(pieces[i], BACKSLASH, RQL_ANY_SYMBOL, star_replacer)],
                 BACKSLASH)
    IN  Reflect(SplitPair(remove_quotes(str_value), BACKSLASH, BACKSLASH))

_get_searching_django_lookup(filter_lookup, str_value) ==
    LET prefix == IF filter_lookup = "I_LIKE" THEN "I_" ELSE ""
        pattern(val, sep_count) ==
            IF ~Contains(val, RQL_ANY_SYMBOL) THEN "EXACT"
            ELSE IF val = <<RQL_ANY_SYMBOL>> THEN "REGEX"
            ELSE IF sep_count = 1 THEN
                     IF val[1] = RQL_ANY_SYMBOL THEN "ENDSWITH"
                     ELSE IF val[Len(val)] = RQL_ANY_SYMBOL THEN "STARTSWITH"
                     ELSE "REGEX"
            ELSE IF sep_count = 2 /\ val[1] = RQL_ANY_SYMBOL
                                  /\ val[Len(val)] = RQL_ANY_SYMBOL THEN "CONTAINS"
            ELSE "REGEX"
        lookup(val) == <<prefix, pattern(val, Count(val, RQL_ANY_SYMBOL))>>
    IN  lookup(_reflect_like_value(str_value))

ValueError == [exc |-> "ValueError"]
Returned(v) == [exc |-> "None", val |-> v]

_get_searching_typed_value(django_lookup, str_value) ==
    LET any_symbol_regex == "(.*?)"
        \* the boundaries of val, v1 being val past its leading wildcard or anchor
        bounded(val, v1) ==
            IF val[Len(val)] = RQL_ANY_SYMBOL
            THEN SubSeq(v1, 1, Len(v1) - 1) ELSE v1 \o <<"$">>
        typed(val) ==
            IF FindPair(val, RQL_ANY_SYMBOL, RQL_ANY_SYMBOL, 1) # 0 THEN ValueError
            ELSE IF django_lookup[2] # "REGEX" THEN
                Returned(Replace(Replace(val, RQL_ANY_SYMBOL, <<>>),
                                 star_replacer, <<RQL_ANY_SYMBOL>>))
            ELSE IF val = <<RQL_ANY_SYMBOL>> THEN Returned(<<any_symbol_regex>>)
            ELSE Returned(Replace(Replace(
                     bounded(val, IF val[1] = RQL_ANY_SYMBOL THEN Tail(val)
                                  ELSE <<"^">> \o val),
                     RQL_ANY_SYMBOL, <<any_symbol_regex>>),
                     star_replacer, <<RQL_ANY_SYMBOL>>))
    IN  typed(_reflect_like_value(str_value))

(***************************************************************************)
(* Predicates (django.db.models.Q), kept as trees.                         *)
(***************************************************************************)
EmptyQ == [op |-> "TRUE"]
Q(orm_route, django_lookup, typed_value) ==
    [op |-> "LEAF", route |-> orm_route, lookup |-> django_lookup,
     value |-> typed_value]
QNot(q) == [op |-> "NOT", arg |-> q]
\* a & b, a | b: an empty side is dropped
QCombine(a, b, conn) ==
    IF b.op = "TRUE" THEN a
    ELSE IF a.op = "TRUE" THEN b
    ELSE [op |-> conn, left |-> a, right |-> b]
QAnd(a, b) == QCombine(a, b, "AND")
QOr(a, b) == QCombine(a, b, "OR")

\* typed values
TBool(b) == [t |-> "bool", b |-> b]
TStr(s) == [t |-> "str", s |-> s]
TInt(n) == [t |-> "int", n |-> n]

(***************************************************************************)
(* Errors.                                                                 *)
(***************************************************************************)
_get_error_details(filter_name, filter_lookup, str_value) ==
    [filter |-> filter_name, lookup |-> filter_lookup, value |-> str_value]

RQLFilterLookupError(details) == [status |-> "RQLFilterLookupError", details |-> details]
RQLFilterValueError(details) == [status |-> "RQLFilterValueError", details |-> details]
RQLFilterParsingError(error) == [status |-> "RQLFilterParsingError", error |-> error]
\* an exception that is none of the three RQL errors
Untyped(name) == [status |-> name]
Ok(v) == [status |-> "ok", value |-> v]

TypedErrors == {"RQLFilterLookupError", "RQLFilterValueError", "RQLFilterParsingError"}

(***************************************************************************)
(* The filter class of the model: its Django model fields, its FILTERS     *)
(* declaration as compiled by _build_filters, and its class attributes.    *)
(*                                                                         *)
(*   FILTERS = [                                                           *)
(*     {filter: age,   lookups: {EQ, LT, GT}},                             *)
(*     {filter: score, lookups: numeric + NULL, ordering, distinct},       *)
(*     {filter: rank,  source: score, lookups: {NULL, NE, LT}},            *)
(*     {filter: name,  lookups: {EQ, NE, LIKE, I_LIKE}, search, ordering}, *)
(*     {filter: nick,  lookups: {EQ, NE, NULL, LIKE, I_LIKE},              *)
(*                     null_values: {null, NULL_ID}},                      *)
(*     {filter: active, lookups: {EQ, NE}},                                *)
(*     {filter: title, sources: [title, subtitle],                         *)
(*                     lookups: {EQ, NE, LIKE, I_LIKE, IN}, search,        *)
(*                     ordering},                                          *)
(*     {filter: text,  sources: [title, subtitle, name],                   *)
(*                     lookups: {EQ, NE, I_LIKE}, distinct},               *)
(*     {filter: cust,  custom, lookups: {EQ}, ordering},                   *)
(*     {namespace: a, filters: [b, c, d]},                                 *)
(*   ]                                                                     *)
(***************************************************************************)
DISTINCT == FALSE
SELECT == TRUE
EXTENDED_SEARCH_ORM_ROUTES == <<<<"ext__text">>>>

\* a Django model field: FilterTypes.field_filter_type, null, blank, primary key
Field(type, null, blank, pk) == [type |-> type, null |-> null, blank |-> blank, pk |-> pk]
NoField == Field("NONE", FALSE, FALSE, FALSE)

_is_pk_field(field) == field.pk

_build_mapped_item(field, field_orm_route, lookups, use_repr, null_values, distinct) ==
    [custom |-> FALSE,
     field |-> field,
     orm_route |-> field_orm_route,
     lookups |-> IF ~(field.null \/ _is_pk_field(field)) THEN lookups \ {"NULL"}
                 ELSE lookups,
     null_values |-> IF null_values = {} THEN {RQL_NULL} ELSE null_values,
     distinct |-> distinct,
     use_repr |-> use_repr]

\* a custom filter is registered as its declaration
CustomItem(lookups, distinct) ==
    [custom |-> TRUE, field |-> NoField, orm_route |-> <<>>, lookups |-> lookups,
     null_values |-> {}, distinct |-> distinct, use_repr |-> FALSE]

Single(item) == [multi |-> FALSE, items |-> <<item>>]
Sources(items) == [multi |-> TRUE, items |-> items]

IntField == Field("INT", FALSE, FALSE, FALSE)
NullIntField == Field("INT", TRUE, FALSE, FALSE)
StrField == Field("STRING", FALSE, FALSE, FALSE)
BlankStrField == Field("STRING", FALSE, TRUE, FALSE)
NullStrField == Field("STRING", TRUE, FALSE, FALSE)
BoolField == Field("BOOLEAN", FALSE, FALSE, FALSE)

NumericLookups == {"EQ", "NE", "LT", "LE", "GT", "GE"}

\* self.filters after _build_filters(FILTERS)
CompiledFilters ==
    (<<"age">> :> Single(_build_mapped_item(IntField, <<"age">>,
                      {"EQ", "LT", "GT"}, FALSE, {}, FALSE)))
    @@ (<<"score">> :> Single(_build_mapped_item(NullIntField, <<"score">>,
                      NumericLookups \cup {"NULL"}, FALSE, {}, TRUE)))
    @@ (<<"rank">> :> Single(_build_mapped_item(NullIntField, <<"score">>,
                      {"NULL", "NE", "LT"}, FALSE, {}, FALSE)))
    @@ (<<"name">> :> Single(_build_mapped_item(BlankStrField, <<"name">>,
                      {"EQ", "NE", "LIKE", "I_LIKE"}, FALSE, {}, FALSE)))
    @@ (<<"nick">> :> Single(_build_mapped_item(NullStrField, <<"nick">>,
                      {"EQ", "NE", "NULL", "LIKE", "I_LIKE"}, FALSE,
                      {RQL_NULL, <<"NULL_ID">>}, FALSE)))
    @@ (<<"active">> :> Single(_build_mapped_item(BoolField, <<"active">>,
                      {"EQ", "NE"}, FALSE, {}, FALSE)))
    @@ (<<"title">> :> Sources(<<
            _build_mapped_item(StrField, <<"title">>,
                      {"EQ", "NE", "LIKE", "I_LIKE", "IN"}, FALSE, {}, FALSE),
            _build_mapped_item(StrField, <<"subtitle">>,
                      {"EQ", "NE", "LIKE", "I_LIKE", "IN"}, FALSE, {}, FALSE)>>))
    @@ (<<"text">> :> Sources(<<
            _build_mapped_item(StrField, <<"title">>,
                      {"EQ", "NE", "I_LIKE"}, FALSE, {}, TRUE),
            _build_mapped_item(StrField, <<"subtitle">>,
                      {"EQ", "NE", "I_LIKE"}, FALSE, {}, TRUE),
            _build_mapped_item(StrField, <<"name">>,
                      {"EQ", "NE", "I_LIKE"}, FALSE, {}, TRUE)>>))
    @@ (<<"cust">> :> Single(CustomItem({"EQ"}, FALSE)))
    @@ (<<"a", ".", "b">> :> Single(_build_mapped_item(StrField, <<"a__b">>,
                      {"EQ", "NE"}, FALSE, {}, FALSE)))
    @@ (<<"a", ".", "c">> :> Single(_build_mapped_item(StrField, <<"a__c">>,
                      {"EQ", "NE"}, FALSE, {}, FALSE)))
    @@ (<<"a", ".", "d">> :> Single(_build_mapped_item(StrField, <<"a__d">>,
                      {"EQ", "NE"}, FALSE, {}, FALSE)))

\* self.ordering_filters and self.search_filters after _build_filters(FILTERS)
CompiledOrderingFilters == {<<"score">>, <<"name">>, <<"title">>, <<"cust">>}
CompiledSearchFilters == {<<"name">>, <<"title">>}

(***************************************************************************)
(* Value coercion.                                                         *)
(***************************************************************************)
Digits == {"0", "1", "2", "3", "4", "5", "6", "7", "8", "9"}
DigitVal(c) ==
    CASE c = "0" -> 0 [] c = "1" -> 1 [] c = "2" -> 2 [] c = "3" -> 3 [] c = "4" -> 4
      [] c = "5" -> 5 [] c = "6" -> 6 [] c = "7" -> 7 [] c = "8" -> 8 [] c = "9" -> 9

\* int(val): base 10, ValueError on anything but digits
RECURSIVE IntOf(_)
IntOf(val) ==
    IF Len(val) = 1 THEN DigitVal(val[1])
    ELSE 10 * IntOf(SubSeq(val, 1, Len(val) - 1)) + DigitVal(val[Len(val)])
int(val) ==
    IF val # <<>> /\ \A i \in 1..Len(val) : val[i] \in Digits
    THEN Returned(TInt(IntOf(val))) ELSE ValueError

\* the model's fields are INT, STRING or BOOLEAN and carry no choices
_convert_value(django_field, str_value, use_repr) ==
    LET filter_type == django_field.type
        convert(val) ==
            IF filter_type = "BOOLEAN" THEN
                IF val \notin {RQL_FALSE, RQL_TRUE} THEN ValueError
                ELSE Returned(TBool(val = RQL_TRUE))
            ELSE IF val = RQL_EMPTY THEN
                IF filter_type = "INT" \/ ~django_field.blank THEN ValueError
                ELSE Returned(TStr(<<>>))
            ELSE IF filter_type = "INT" THEN int(val)
            ELSE Returned(TStr(val))
    IN  convert(remove_quotes(str_value))

(***************************************************************************)
(* Lookups.                                                                *)
(***************************************************************************)
_get_filter_lookup_by_operator(grammar_operator) ==
    CASE grammar_operator = "eq" -> "EQ"
      [] grammar_operator = "ne" -> "NE"
      [] grammar_operator = "lt" -> "LT"
      [] grammar_operator = "le" -> "LE"
      [] grammar_operator = "gt" -> "GT"
      [] grammar_operator = "ge" -> "GE"
      [] grammar_operator = "like" -> "LIKE"
      [] grammar_operator = "ilike" -> "I_LIKE"

_is_searching_lookup(filter_lookup) == filter_lookup \in {"LIKE", "I_LIKE"}

\* mutant: a null value is checked against the permitted set only
_get_filter_lookup_NoNullRule(filter_name, operator, str_value, available_lookups, null_values) ==
    LET filter_lookup == _get_filter_lookup_by_operator(operator)
        available == IF str_value = RQL_EMPTY THEN {"EQ", "NE"} ELSE available_lookups
    IN
    IF filter_lookup \notin available
    THEN RQLFilterLookupError(_get_error_details(filter_name, filter_lookup, str_value))
    ELSE Ok(filter_lookup)

\* mutant: only a null value is checked
_get_filter_lookup_NoPermittedCheck(filter_name, operator, str_value, available_lookups, null_values) ==
    LET filter_lookup == _get_filter_lookup_by_operator(operator) IN
    IF str_value \in null_values
       /\ ("NULL" \notin available_lookups \/ filter_lookup \notin {"EQ", "NE"})
    THEN RQLFilterLookupError(_get_error_details(filter_name, filter_lookup, str_value))
    ELSE Ok(filter_lookup)

\* mutant: the empty sentinel does not narrow the permitted lookups
_get_filter_lookup_NoEmptyRule(filter_name, operator, str_value, available_lookups, null_values) ==
    LET filter_lookup == _get_filter_lookup_by_operator(operator)
        error == RQLFilterLookupError(
                     _get_error_details(filter_name, filter_lookup, str_value))
    IN
    IF str_value \in null_values
       /\ ("NULL" \notin available_lookups \/ filter_lookup \notin {"EQ", "NE"})
    THEN error
    ELSE IF filter_lookup \notin available_lookups THEN error
    ELSE Ok(filter_lookup)

\* the lookup, or the RQLFilterLookupError raised
_get_filter_lookup(filter_name, operator, str_value, available_lookups, null_values) ==
    LET filter_lookup == _get_filter_lookup_by_operator(operator)
        null_lookups == {"EQ", "NE"}
        error == RQLFilterLookupError(
                     _get_error_details(filter_name, filter_lookup, str_value))
        available == IF str_value = RQL_EMPTY THEN {"EQ", "NE"} ELSE available_lookups
    IN
    IF str_value \in null_values
       /\ ("NULL" \notin available_lookups \/ filter_lookup \notin null_lookups)
    THEN error
    ELSE IF filter_lookup \notin available THEN error
    ELSE Ok(filter_lookup)

_get_django_lookup(filter_lookup, str_value, null_values) ==
    IF str_value \in null_values THEN <<"", "NULL">>
    ELSE IF _is_searching_lookup(filter_lookup)
    THEN _get_searching_django_lookup(filter_lookup, str_value)
    ELSE CASE filter_lookup = "EQ" -> <<"", "EXACT">>
           [] filter_lookup = "NE" -> <<"", "EXACT">>
           [] filter_lookup = "LT" -> <<"", "LT">>
           [] filter_lookup = "LE" -> <<"", "LTE">>
           [] filter_lookup = "GT" -> <<"", "GT">>
           [] filter_lookup = "GE" -> <<"", "GTE">>

\* the typed value, or the RQLFilterValueError raised
_get_typed_value(filter_name, filter_lookup, str_value, django_field, use_repr, null_values, django_lookup) ==
    LET searching(v) == IF v.exc = "ValueError" THEN v ELSE Returned(TStr(v.val))
        typed(r) == IF r.exc = "ValueError"
                    THEN RQLFilterValueError(
                             _get_error_details(filter_name, filter_lookup, str_value))
                    ELSE Ok(r.val)
    IN
    IF str_value \in null_values THEN Ok(TBool(TRUE))
    ELSE typed(IF _is_searching_lookup(filter_lookup)
               THEN searching(_get_searching_typed_value(django_lookup, str_value))
               ELSE _convert_value(django_field, str_value, use_repr))

_build_django_q(filter_item, django_lookup, filter_lookup, typed_value) ==
    LET q == Q(filter_item.orm_route, django_lookup, typed_value) IN
    IF filter_lookup = "NE" THEN QNot(q) ELSE q

(***************************************************************************)
(* The predicate builder.  A builder returns [ret, distinct]: what it      *)
(* returned or raised, and self._is_distinct as it leaves it.              *)
(***************************************************************************)
Out(ret, distinct) == [ret |-> ret, distinct |-> distinct]

\* the base item in a one-element tuple, or <<>> for None
get_filter_base_item(filter_name) ==
    IF filter_name \in DOMAIN filters /\ filters[filter_name].items # <<>>
    THEN <<filters[filter_name].items[1]>> ELSE <<>>

build_q_for_custom_filter(filter_name, operator, str_value) ==
    RQLFilterParsingError("Filter logic is not implemented")

\* mutant: the sources are combined with OR whatever the lookup
RECURSIVE CombineSources_AlwaysOr(_, _, _, _, _)
CombineSources_AlwaysOr(q, items, django_lookup, filter_lookup, typed_value) ==
    IF items = <<>> THEN q
    ELSE CombineSources_AlwaysOr(
             QOr(q, _build_django_q(Head(items), django_lookup, filter_lookup,
                                    typed_value)),
             Tail(items), django_lookup, filter_lookup, typed_value)

\* q &= item_q for NE, q |= item_q otherwise, over the sources in order
RECURSIVE CombineSources(_, _, _, _, _)
CombineSources(q, items, django_lookup, filter_lookup, typed_value) ==
    IF items = <<>> THEN q
    ELSE LET item_q == _build_django_q(Head(items), django_lookup, filter_lookup,
                                       typed_value)
         IN  CombineSources(IF filter_lookup = "NE" THEN QAnd(q, item_q)
                            ELSE QOr(q, item_q),
                            Tail(items), django_lookup, filter_lookup, typed_value)

\* build_q_for_filter from the dedup flag on, for a registered filter
BuildQForRegisteredFilter(base_item, filter_name, operator, str_value, list_operator, distinct) ==
    LET distinct1 == IF base_item.distinct THEN TRUE ELSE distinct
        filter_item == filters[filter_name]
        available_lookups == base_item.lookups
        list_filter_lookup == IF list_operator = "in" THEN "IN" ELSE "OUT"
        null_values == base_item.null_values
        built(filter_lookup, django_lookup, typed_value) ==
            IF typed_value.status # "ok" THEN typed_value
            ELSE IF ~filter_item.multi
            THEN Ok(_build_django_q(filter_item.items[1], django_lookup,
                                    filter_lookup, typed_value.value))
            ELSE Ok(CombineSources(EmptyQ, filter_item.items, django_lookup,
                                   filter_lookup, typed_value.value))
        typed(filter_lookup, django_lookup) ==
            built(filter_lookup, django_lookup,
                  _get_typed_value(filter_name, filter_lookup, str_value,
                                   base_item.field, base_item.use_repr,
                                   null_values, django_lookup))
        looked_up(filter_lookup) ==
            IF filter_lookup.status # "ok" THEN filter_lookup
            ELSE IF base_item.custom
            THEN build_q_for_custom_filter(filter_name, operator, str_value)
            ELSE typed(filter_lookup.value,
                       _get_django_lookup(filter_lookup.value, str_value, null_values))
    IN
    Out(IF list_operator # None /\ list_filter_lookup \notin available_lookups
        THEN RQLFilterLookupError(
                 _get_error_details(filter_name, list_filter_lookup, str_value))
        ELSE looked_up(_get_filter_lookup(filter_name, operator, str_value,
                                          available_lookups, null_values)),
        distinct1)

\* mutant: a name the registry does not hold is a lookup error
BuildQForNamedFilter_Strict(filter_name, operator, str_value, list_operator, distinct) ==
    LET found == get_filter_base_item(filter_name) IN
    IF found = <<>>
    THEN Out(RQLFilterLookupError(_get_error_details(
                 filter_name, _get_filter_lookup_by_operator(operator), str_value)),
             distinct)
    ELSE BuildQForRegisteredFilter(found[1], filter_name, operator, str_value,
                                   list_operator, distinct)

\* build_q_for_filter for a name that is not the search parameter
BuildQForNamedFilter(filter_name, operator, str_value, list_operator, distinct) ==
    LET build(found) ==
            IF found = <<>> THEN Out(Ok(EmptyQ), distinct)
            ELSE BuildQForRegisteredFilter(found[1], filter_name, operator, str_value,
                                           list_operator, distinct)
    IN  build(get_filter_base_item(filter_name))

\* one leaf per extended search route, or the ValueError that escapes
RECURSIVE ExtendedSearchRoutes(_, _, _)
ExtendedSearchRoutes(q, routes, str_value) ==
    IF routes = <<>> THEN Ok(q)
    ELSE
    LET extended_search_filter_lookup == "I_LIKE"
        route(django_lookup, typed_value) ==
            IF typed_value.exc = "ValueError" THEN Untyped("ValueError")
            ELSE ExtendedSearchRoutes(
                     QOr(q, _build_django_q([orm_route |-> Head(routes)], django_lookup,
                                            extended_search_filter_lookup,
                                            TStr(typed_value.val))),
                     Tail(routes), str_value)
        looked_up(django_lookup) ==
            route(django_lookup, _get_searching_typed_value(django_lookup, str_value))
    IN  looked_up(_get_searching_django_lookup(extended_search_filter_lookup,
                                               str_value))

_build_q_for_extended_search(str_value) ==
    ExtendedSearchRoutes(EmptyQ, EXTENDED_SEARCH_ORM_ROUTES, str_value)

\* q |= build_q_for_filter(filter_name, ilike, value) over self.search_filters,
\* names being the order in which the set is iterated
RECURSIVE SearchFilters(_, _, _, _)
SearchFilters(q, names, unquoted_value, distinct) ==
    IF names = <<>> THEN Out(Ok(q), distinct)
    ELSE
    LET next(r) == IF r.ret.status # "ok" THEN r
                   ELSE SearchFilters(QOr(q, r.ret.value), Tail(names),
                                      unquoted_value, r.distinct)
    IN  next(BuildQForNamedFilter(Head(names), "ilike", unquoted_value, None,
                                  distinct))

_build_q_for_search(operator, str_value, order, distinct) ==
    IF operator # "eq" THEN Out(RQLFilterParsingError("Bad search filter"), distinct)
    ELSE
    LET leading(v) == IF ~(Len(v) > 0 /\ v[1] = RQL_ANY_SYMBOL)
                      THEN <<"*">> \o v ELSE v
        trailing(v) == IF ~(v[Len(v)] = RQL_ANY_SYMBOL) THEN v \o <<"*">> ELSE v
        fields(unquoted_value, q) ==
            IF q.status # "ok" THEN Out(q, distinct)
            ELSE SearchFilters(q.value, order, unquoted_value, distinct)
        search(unquoted_value) ==
            fields(unquoted_value, _build_q_for_extended_search(unquoted_value))
    IN  search(trailing(leading(remove_quotes(str_value))))

\* order: the order in which self.search_filters is iterated
build_q_for_filter(filter_name, operator, str_value, list_operator, order, distinct) ==
    IF filter_name = RQL_SEARCH_PARAM
    THEN _build_q_for_search(operator, str_value, order, distinct)
    ELSE BuildQForNamedFilter(filter_name, operator, str_value, list_operator,
                              distinct)

(***************************************************************************)
(* Result sets (Django querysets), kept as the operations applied.         *)
(***************************************************************************)
QuerySet(preds, distinct, order_by, hints) ==
    [preds |-> preds, distinct |-> distinct, order_by |-> order_by, hints |-> hints]

\* the queryset handed to the constructor
BaseQuerySet == QuerySet(<<>>, FALSE, <<>>, {})

(***************************************************************************)
(* Selection.  A selection mapping (rql_select) is a function from paths   *)
(* to BOOLEAN; a selection tree maps a name part to its node.              *)
(***************************************************************************)
\* s.split(x), x one atom
RECURSIVE SplitOn(_, _)
SplitOn(s, x) ==
    IF ~Contains(s, x) THEN <<s>>
    ELSE LET i == CHOOSE k \in 1..Len(s) : s[k] = x /\ \A j \in 1..(k - 1) : s[j] # x
         IN  <<SubSeq(s, 1, i - 1)>> \o SplitOn(SubSeq(s, i + 1, Len(s)), x)

\* d[k] = v
Put(d, k, v) == (k :> v) @@ d

\* a node of the selection tree, as _fill_select_tree stores it
SelectNode(hidden, fields, namespace, qs, path) ==
    [hidden |-> hidden, fields |-> fields, namespace |-> namespace, qs |-> qs,
     path |-> path]
SelectLeaf(hidden, path) == SelectNode(hidden, <<>>, FALSE, None, path)

\* self._select_tree and self._default_exclusions after _build_filters(FILTERS)
CompiledSelectTree ==
    (<<"age">> :> SelectLeaf(FALSE, <<"age">>))
    @@ (<<"score">> :> SelectLeaf(FALSE, <<"score">>))
    @@ (<<"rank">> :> SelectLeaf(FALSE, <<"rank">>))
    @@ (<<"name">> :> SelectLeaf(FALSE, <<"name">>))
    @@ (<<"nick">> :> SelectLeaf(TRUE, <<"nick">>))
    @@ (<<"active">> :> SelectLeaf(FALSE, <<"active">>))
    @@ (<<"title">> :> SelectLeaf(FALSE, <<"title">>))
    @@ (<<"text">> :> SelectLeaf(FALSE, <<"text">>))
    @@ (<<"cust">> :> SelectLeaf(FALSE, <<"cust">>))
    @@ (<<"a">> :> SelectNode(FALSE,
            (<<"b">> :> SelectLeaf(FALSE, <<"a", ".", "b">>))
            @@ (<<"c">> :> SelectLeaf(FALSE, <<"a", ".", "c">>))
            @@ (<<"d">> :> SelectLeaf(FALSE, <<"a", ".", "d">>)),
            TRUE, "SelectRelated(a)", <<"a">>))
CompiledDefaultExclusions == {<<"nick">>}

\* the local variables of _build_rql_select
SelectState(rql_select, exclusions, inclusions, forbidden_inclusions, potential_exclusions) ==
    [rql_select |-> rql_select, exclusions |-> exclusions, inclusions |-> inclusions,
     forbidden_inclusions |-> forbidden_inclusions,
     potential_exclusions |-> potential_exclusions]

\* a bare raise with no exception being handled
BareRaise == Untyped("RuntimeError")

\* the loop over the parts of an included name, from part index on
RECURSIVE IncludeParts(_, _, _, _, _)
IncludeParts(st, parts, index, select_tree, parent_parts) ==
    IF index > Len(parts) THEN Ok(st)
    ELSE
    LET part == parts[index]
        included(current_part) ==
            [st EXCEPT !.inclusions = @ \cup {current_part},
                       !.rql_select = Put(@, current_part, TRUE)]
        neighbours(current) ==
            [current EXCEPT !.potential_exclusions =
                 @ \cup {parent_parts \o neighbour_part :
                            neighbour_part \in DOMAIN select_tree \ {part}}]
    IN
    IF part \notin DOMAIN select_tree THEN BareRaise
    ELSE IF part \in st.exclusions THEN BareRaise
    ELSE IF (parent_parts \o <<".">>) \in st.forbidden_inclusions THEN BareRaise
    ELSE IF index # Len(parts)
    THEN IncludeParts(included(parent_parts \o part), parts, index + 1,
                      select_tree[part].fields, parent_parts \o part \o <<".">>)
    ELSE Ok(neighbours(included(parent_parts \o part)))

\* the loop over the parts of an excluded name, from part index on
RECURSIVE ExcludeParts(_, _, _, _, _)
ExcludeParts(st, parts, index, select_tree, parent_parts) ==
    IF index > Len(parts) THEN Ok(st)
    ELSE
    LET part == parts[index] IN
    IF part \notin DOMAIN select_tree THEN BareRaise
    ELSE IF index # Len(parts)
    THEN ExcludeParts(st, parts, index + 1, select_tree[part].fields,
                      parent_parts \o part \o <<".">>)
    ELSE Ok([st EXCEPT !.forbidden_inclusions =
                           @ \cup {parent_parts \o part \o <<".">>}])

\* one turn of the loop over the select tokens
SelectProp(st, select_prop) ==
    LET is_included == ~(select_prop[1] = "-")
        filter_name == IF select_prop[1] \in {"-", "+"} THEN Tail(select_prop)
                       ELSE select_prop
        parts(name) ==
            IF is_included THEN IncludeParts(st, SplitOn(name, "."), 1, _select_tree, <<>>)
            ELSE IF name \in st.inclusions THEN BareRaise
            ELSE ExcludeParts([st EXCEPT !.exclusions = @ \cup {name},
                                         !.rql_select = Put(@, name, FALSE)],
                              SplitOn(name, "."), 1, _select_tree, <<>>)
    IN  parts(filter_name)

RECURSIVE SelectProps(_, _)
SelectProps(st, select) ==
    IF select = <<>> THEN Ok(st)
    ELSE LET next(r) == IF r.status # "ok" THEN r
                        ELSE SelectProps(r.value, Tail(select))
         IN  next(SelectProp(st, Head(select)))

\* mutant: a path that was included is excluded again
ApplyExclusions_KeepInclusions(st) ==
    LET excluded == st.potential_exclusions \cup _default_exclusions IN
    [path \in DOMAIN st.rql_select \cup excluded |->
        IF path \in excluded THEN FALSE ELSE st.rql_select[path]]

\* rql_select[exclusion] = False over the exclusions that were not included
ApplyExclusions(st) ==
    LET excluded == (st.potential_exclusions \cup _default_exclusions)
                    \ st.inclusions
    IN  [path \in DOMAIN st.rql_select \cup excluded |->
            IF path \in excluded THEN FALSE ELSE st.rql_select[path]]

_build_rql_select(select) ==
    LET done(r) == IF r.status # "ok" THEN r ELSE Ok(ApplyExclusions(r.value))
    IN  done(SelectProps(SelectState(<<>>, {}, {}, {}, {}), select))

(***************************************************************************)
(* Ordering.  A builder of ordering fields returns [ret, distinct] as the  *)
(* predicate builder does.                                                 *)
(***************************************************************************)
build_name_for_custom_ordering(filter_name) ==
    RQLFilterParsingError("Ordering logic is not implemented")

\* mutant: only the first source of a filter contributes a path
RECURSIVE OrderingSources_FirstOnly(_, _, _, _, _)
OrderingSources_FirstOnly(ordering_fields, fs, filter_name, sign, distinct) ==
    IF fs = <<>> THEN Out(Ok(ordering_fields), distinct)
    ELSE IF Head(fs).custom
    THEN Out(build_name_for_custom_ordering(filter_name),
             IF Head(fs).distinct THEN TRUE ELSE distinct)
    ELSE Out(Ok(Append(ordering_fields, sign \o Head(fs).orm_route)),
             IF Head(fs).distinct THEN TRUE ELSE distinct)

\* the loop over the sources of one ordering filter
RECURSIVE OrderingSources(_, _, _, _, _)
OrderingSources(ordering_fields, fs, filter_name, sign, distinct) ==
    IF fs = <<>> THEN Out(Ok(ordering_fields), distinct)
    ELSE
    LET f == Head(fs)
        distinct1 == IF f.distinct THEN TRUE ELSE distinct
    IN  IF f.custom
        THEN Out(build_name_for_custom_ordering(filter_name), distinct1)
        ELSE OrderingSources(Append(ordering_fields, sign \o f.orm_route), Tail(fs),
                             filter_name, sign, distinct1)

\* the loop over the tokens of the ordering group
RECURSIVE OrderingProps(_, _, _)
OrderingProps(ordering_fields, props, distinct) ==
    IF props = <<>> THEN Out(Ok(ordering_fields), distinct)
    ELSE
    LET prop == Head(props)
        filter_name == IF "-" = prop[1] THEN Tail(prop) ELSE prop
        sign == IF "-" = prop[1] THEN <<"-">> ELSE <<>>
        next(r) == IF r.ret.status # "ok" THEN r
                   ELSE OrderingProps(r.ret.value, Tail(props), r.distinct)
    IN  IF filter_name \notin ordering_filters
        THEN Out(RQLFilterParsingError("Bad ordering filter"), distinct)
        ELSE next(OrderingSources(ordering_fields, filters[filter_name].items,
                                  filter_name, sign, distinct))

_apply_ordering(qs, properties, distinct) ==
    LET ordered(r) == IF r.ret.status # "ok" THEN r
                      ELSE Out(Ok([qs EXCEPT !.order_by = r.ret.value]), r.distinct)
    IN
    IF Len(properties) = 0 THEN Out(Ok(qs), distinct)
    ELSE IF Len(properties) > 1
    THEN Out(RQLFilterParsingError(
                 "Bad ordering filter: query can contain only one ordering operation"),
             distinct)
    ELSE ordered(OrderingProps(<<>>, properties[1], distinct))

(***************************************************************************)
(* Optimizations.  A hint applied to a result set joins its set of hints.  *)
(***************************************************************************)
optimize_field(qs, rql_select, field) == <<qs, FALSE>>

\* rql_select.get(path, True)
Selected(rql_select, path) ==
    IF path \in DOMAIN rql_select THEN rql_select[path] ELSE TRUE

\* optimization.apply(qs)
ApplyHint(optimization, qs) == [qs EXCEPT !.hints = @ \cup {optimization}]

\* __apply_optimizations, names being the keys of tree still to visit
RECURSIVE OptimizeFields(_, _, _, _)
OptimizeFields(qs, rql_select, tree, names) ==
    IF names = {} THEN qs
    ELSE
    LET field_name == CHOOSE n \in names : TRUE
        field == tree[field_name]
        optimization == field.qs
        visited(o) ==
            IF ~o[2] /\ optimization # None
            THEN OptimizeFields(ApplyHint(optimization, o[1]), rql_select,
                                field.fields, DOMAIN field.fields)
            ELSE o[1]
        next(qs1) == OptimizeFields(qs1, rql_select, tree, names \ {field_name})
    IN  next(IF Selected(rql_select, field.path)
             THEN visited(optimize_field(qs, rql_select, field))
             ELSE qs)

_apply_optimizations(qs, rql_select) ==
    OptimizeFields(qs, rql_select, _select_tree, DOMAIN _select_tree)

(***************************************************************************)
(* The transformer.  A parse tree node is a comparison, [type, args], or   *)
(* a logical node, [type, data, children]; an argument of a comparison is  *)
(* a subtree [data, value].  A query is the parse tree with the ordering   *)
(* groups and the select tokens read from it, or the empty query.          *)
(***************************************************************************)
NOT == "not"
AND == "and"
OR == "or"

Arg(data, value) == [data |-> data, value |-> value]
Comp(args) == [type |-> "comp", args |-> args]
Logical(data, children) == [type |-> "logical", data |-> data, children |-> children]

_get_value(obj) == obj.value
\* the grammar operator that the text of a comp_term token names
OperatorOf(value) == value[1]

comp(args, distinct) ==
    IF Len(args) = 2
    THEN build_q_for_filter(_get_value(args[1]), "eq", _get_value(args[2]), None,
                            <<<<"name">>, <<"title">>>>, distinct)
    ELSE IF args[1].data = "comp_term"
    THEN build_q_for_filter(_get_value(args[2]), OperatorOf(_get_value(args[1])),
                            _get_value(args[3]), None,
                            <<<<"name">>, <<"title">>>>, distinct)
    ELSE build_q_for_filter(_get_value(args[1]), OperatorOf(_get_value(args[2])),
                            _get_value(args[3]), None,
                            <<<<"name">>, <<"title">>>>, distinct)

\* Q(*children)
RECURSIVE QAll(_)
QAll(children) ==
    IF Len(children) = 1 THEN children[1]
    ELSE [op |-> "AND", left |-> QAll(SubSeq(children, 1, Len(children) - 1)),
          right |-> children[Len(children)]]

\* q |= child over the children
RECURSIVE QAny(_, _)
QAny(q, children) ==
    IF children = <<>> THEN q ELSE QAny(QOr(q, Head(children)), Tail(children))

\* mutant: an OR node conjoins its children
logical_AllAnd(operation, children) ==
    IF operation = NOT THEN QNot(children[1]) ELSE QAll(children)

logical(operation, children) ==
    IF operation = NOT THEN QNot(children[1])
    ELSE IF operation = AND THEN QAll(children)
    ELSE QAny(EmptyQ, children)

\* the bottom-up walk: the children of a node are transformed before it
RECURSIVE Transform(_, _)
RECURSIVE TransformChildren(_, _, _)
TransformChildren(done, children, distinct) ==
    IF children = <<>> THEN Out(Ok(done), distinct)
    ELSE LET next(r) == IF r.ret.status # "ok" THEN r
                        ELSE TransformChildren(Append(done, r.ret.value),
                                               Tail(children), r.distinct)
         IN  next(Transform(Head(children), distinct))

Transform(node, distinct) ==
    LET combined(r) == IF r.ret.status # "ok" THEN r
                       ELSE Out(Ok(logical(node.data, r.ret.value)), r.distinct)
    IN  IF node.type = "comp" THEN comp(node.args, distinct)
        ELSE combined(TransformChildren(<<>>, node.children, distinct))

start(self_queryset, q) ==
    [self_queryset EXCEPT !.preds = Append(@, q), !.distinct = TRUE]

EmptyQuery == [empty |-> TRUE]
Query(tree, ordering, select) ==
    [empty |-> FALSE, tree |-> tree, ordering |-> ordering, select |-> select]

(***************************************************************************)
(* apply_filters returns [ret, distinct, queryset]: what it returned or    *)
(* raised, and self._is_distinct and self.queryset as it leaves them.      *)
(***************************************************************************)
Applied(ret, distinct, qs) == [ret |-> ret, distinct |-> distinct, queryset |-> qs]

apply_filters(self_queryset, query) ==
    LET stored(distinct, qs) == Applied(Ok(qs), distinct, qs)
        selected(qs, distinct, rql_select) ==
            IF rql_select.status # "ok"
            THEN Applied(rql_select, distinct, self_queryset)
            ELSE stored(distinct, _apply_optimizations(qs, rql_select.value))
        filtered(qs, distinct, select) ==
            IF SELECT THEN selected(qs, distinct, _build_rql_select(select))
            ELSE stored(distinct, qs)
        ordered(r) ==
            IF r.ret.status # "ok" THEN Applied(r.ret, r.distinct, self_queryset)
            ELSE filtered(IF r.distinct THEN [r.ret.value EXCEPT !.distinct = TRUE]
                          ELSE r.ret.value,
                          r.distinct, query.select)
        transformed(t) ==
            IF t.ret.status # "ok" THEN Applied(t.ret, t.distinct, self_queryset)
            ELSE ordered(_apply_ordering(start(self_queryset, t.ret.value),
                                         query.ordering, t.distinct))
    IN  IF query.empty THEN filtered(self_queryset, DISTINCT, <<>>)
        ELSE transformed(Transform(query.tree, DISTINCT))

(***************************************************************************)
(* Schema compilation.  The instance being built is the record of its      *)
(* registries, with the AssertionError that stopped the build if any; the  *)
(* insertion point of the selection tree is the path of parts that leads   *)
(* to it from the root.                                                    *)
(***************************************************************************)
AssertionError == Untyped("AssertionError")
RESERVED_FILTER_NAMES == {RQL_SEARCH_PARAM}

\* a relation to another Django model
RelatedField(related_model) ==
    [type |-> "RELATED", null |-> FALSE, blank |-> FALSE, pk |-> FALSE,
     related_model |-> related_model]

\* the Django models of the compiled declarations
MODEL == "Book"
Models ==
    [Book |-> (<<"title">> :> StrField) @@ (<<"subtitle">> :> StrField)
              @@ (<<"name">> :> BlankStrField) @@ (<<"age">> :> IntField)
              @@ (<<"author">> :> RelatedField("Author"))
              @@ (<<"pub">> :> RelatedField("Publisher")),
     Author |-> (<<"b">> :> StrField) @@ (<<"c">> :> IntField),
     Publisher |-> (<<"m">> :> StrField) @@ (<<"k">> :> IntField)]

_get_model_field(model, field_name) == Models[model][field_name]

_get_field_name_parts(field_name) ==
    IF field_name = <<>> THEN <<>>
    ELSE SplitOn(field_name, IF Contains(field_name, ".") THEN "." ELSE "__")

\* the walk of _get_field over the parts of the name, from part index on
RECURSIVE GetFieldFrom(_, _, _, _)
GetFieldFrom(current_model, field_name_parts, index, get_related) ==
    LET current_field == _get_model_field(current_model, field_name_parts[index]) IN
    IF index = Len(field_name_parts)
    THEN IF get_related \/ current_field.type # "RELATED" THEN Ok(current_field)
         ELSE AssertionError
    ELSE GetFieldFrom(current_field.related_model, field_name_parts, index + 1,
                      get_related)

_get_field(base_model, field_name, get_related) ==
    GetFieldFrom(base_model, _get_field_name_parts(field_name), 1, get_related)

\* FilterTypes.default_field_filter_lookups
default_field_filter_lookups(field) ==
    IF field.type = "STRING"
    THEN {"EQ", "NE", "IN", "OUT", "NULL", "LIKE", "I_LIKE"}
    ELSE IF field.type = "BOOLEAN" THEN {"EQ", "NE", "NULL"}
    ELSE NumericLookups \cup {"IN", "OUT", "NULL"}

\* the instance while _build_filters runs
Building(fs, ofs, sfs, tree, exclusions) ==
    [filters |-> fs, ordering_filters |-> ofs, search_filters |-> sfs,
     _select_tree |-> tree, _default_exclusions |-> exclusions, error |-> None]
Fail(b) == [b EXCEPT !.error = "AssertionError"]

\* the declarations of FILTERS
Attr(name) == [kind |-> "attr", name |-> name]
NamespaceItem(namespace, source, hidden, qs, fs) ==
    [kind |-> "namespace", namespace |-> namespace, source |-> source,
     hidden |-> hidden, qs |-> qs, filters |-> fs]
FilterItem(filter, source, sources, lookups, flags, qs) ==
    [kind |-> "filter", filter |-> filter, source |-> source, sources |-> sources,
     lookups |-> lookups, search |-> "search" \in flags,
     ordering |-> "ordering" \in flags, custom |-> "custom" \in flags,
     dynamic |-> "dynamic" \in flags, hidden |-> "hidden" \in flags,
     distinct |-> "distinct" \in flags, use_repr |-> "use_repr" \in flags,
     null_values |-> {}, field |-> NoField, qs |-> qs]

\* tree.setdefault(part, node) at the end of path
RECURSIVE SetDefault(_, _, _)
SetDefault(tree, path, node) ==
    IF Len(path) = 1
    THEN IF path[1] \in DOMAIN tree THEN tree ELSE Put(tree, path[1], node)
    ELSE [tree EXCEPT ![path[1]].fields = SetDefault(@, Tail(path), node)]

\* qs.__class__(*qs.relations, parent=parent_qs, **qs.extensions)
Reparent(qs, parent_qs) == qs \o "<" \o parent_qs

\* the loop of _fill_select_tree over the parts of the name, from part index on
RECURSIVE FillParts(_, _, _, _, _)
FillParts(b, at, filter_name_parts, index, node) ==
    IF index > Len(filter_name_parts) THEN [b |-> b, at |-> at]
    ELSE FillParts(
             [b EXCEPT !._select_tree =
                  SetDefault(@, at \o <<filter_name_parts[index]>>,
                             [node EXCEPT !.namespace =
                                  @ \/ index # Len(filter_name_parts)])],
             at \o <<filter_name_parts[index]>>, filter_name_parts, index + 1, node)

\* the instance and the insertion point below the name
_fill_select_tree(b, f_name, full_f_name, at, namespace, hidden, qs, parent_qs) ==
    IF ~SELECT THEN [b |-> b, at |-> at]
    ELSE FillParts(
             IF hidden THEN [b EXCEPT !._default_exclusions = @ \cup {full_f_name}]
             ELSE b,
             at, SplitOn(f_name, "."), 1,
             SelectNode(hidden, <<>>, namespace,
                        IF qs # None /\ parent_qs # None THEN Reparent(qs, parent_qs)
                        ELSE qs,
                        full_f_name))

_add_filter_item(b, filter_name, item) ==
    IF filter_name \in RESERVED_FILTER_NAMES THEN Fail(b)
    ELSE [b EXCEPT !.filters = Put(@, filter_name, item)]

_register_ordering_and_search(b, item, field_filter_route) ==
    [b EXCEPT !.ordering_filters =
                  IF item.ordering THEN @ \cup {field_filter_route} ELSE @,
              !.search_filters =
                  IF item.search THEN @ \cup {field_filter_route} ELSE @]

\* the checks hold
_check_use_repr(filter_item) ==
    /\ ~(filter_item.use_repr /\ filter_item.ordering)
    /\ ~(filter_item.use_repr /\ filter_item.search)
_check_dynamic(filter_item, filter_route) ==
    IF filter_item.dynamic
    THEN filter_route = <<>> /\ filter_item.field # NoField
    ELSE ~filter_item.custom /\ filter_item.field = NoField
_check_search(filter_item, field) ==
    ~(filter_item.search /\ field.type # "STRING")

\* lookups or FilterTypes.default_field_filter_lookups(field)
MappedItem(field, field_orm_route, filter_item) ==
    _build_mapped_item(field, field_orm_route,
                       IF filter_item.lookups # {} THEN filter_item.lookups
                       ELSE default_field_filter_lookups(field),
                       filter_item.use_repr, filter_item.null_values,
                       filter_item.distinct)

\* the loop over item['sources']: field keeps the first field that was found
RECURSIVE MapSources(_, _, _, _, _, _)
MapSources(items, sources, field, filter_item, orm_route, model) ==
    IF sources = <<>> THEN Ok(items)
    ELSE
    LET mapped(f) ==
            IF ~_check_search(filter_item, f) THEN AssertionError
            ELSE MapSources(Append(items, MappedItem(f, orm_route \o Head(sources),
                                                     filter_item)),
                            Tail(sources), f, filter_item, orm_route, model)
        found(r) == IF r.status # "ok" THEN r ELSE mapped(r.value)
    IN  IF field # NoField THEN mapped(field)
        ELSE found(_get_field(model, Head(sources), FALSE))

\* the branch of a filter without sources
MapSource(field, filter_item, orm_route, model) ==
    LET orm_field_name == IF filter_item.source = <<>> THEN filter_item.filter
                          ELSE filter_item.source
        mapped(f) ==
            IF ~_check_search(filter_item, f) THEN AssertionError
            ELSE Ok(<<MappedItem(f, orm_route \o orm_field_name, filter_item)>>)
        found(r) == IF r.status # "ok" THEN r ELSE mapped(r.value)
    IN  IF field # NoField THEN mapped(field)
        ELSE found(_get_field(model, orm_field_name, FALSE))

\* the body of the loop of _build_filters for a plain attribute name
AttrStep(b, item, filter_route, orm_route, model, at, parent_qs) ==
    LET field_filter_route == filter_route \o item.name
        filled(b1) ==
            IF b1.error # None THEN b1
            ELSE _fill_select_tree(b1, item.name, field_filter_route, at, FALSE, FALSE,
                                   None, parent_qs).b
        added(r) ==
            IF r.status # "ok" THEN Fail(b)
            ELSE filled(_add_filter_item(b, field_filter_route,
                     Single(_build_mapped_item(r.value, orm_route \o item.name,
                                default_field_filter_lookups(r.value),
                                FALSE, {}, FALSE))))
    IN  added(_get_field(model, item.name, FALSE))

\* the body of the loop of _build_filters for an extended filter
FilterStep(b, item, filter_route, orm_route, model, at, parent_qs) ==
    LET field_filter_route == filter_route \o item.filter
        added(b1, r) ==
            IF r.status # "ok" THEN Fail(b1)
            ELSE _register_ordering_and_search(
                     _add_filter_item(b1, field_filter_route,
                         IF item.sources # <<>> THEN Sources(r.value)
                         ELSE Single(r.value[1])),
                     item, field_filter_route)
        filled(b1) ==
            IF item.custom
            THEN _register_ordering_and_search(
                     _add_filter_item(b1, field_filter_route,
                         Single(CustomItem(item.lookups, item.distinct))),
                     item, field_filter_route)
            ELSE IF ~_check_use_repr(item) \/ ~_check_dynamic(item, filter_route)
            THEN Fail(b1)
            ELSE added(b1, IF item.sources # <<>>
                           THEN MapSources(<<>>, item.sources, item.field, item,
                                           orm_route, model)
                           ELSE MapSource(item.field, item, orm_route, model))
    IN  filled(_fill_select_tree(b, item.filter, field_filter_route, at, FALSE,
                                 item.hidden, item.qs, parent_qs).b)

\* _build_filters from the item at index on: the instance when the loop ends
RECURSIVE BuildItems(_, _, _, _, _, _, _)

\* the body of the loop for a namespace, and the rest of the loop after it:
\* parent_qs is rebound before the recursive call and stays rebound
NamespaceStep(b, item, rest, filter_route, orm_route, model, at, parent_qs) ==
    LET related_filter_route == filter_route \o item.namespace
        orm_field_name == IF item.source = <<>> THEN item.namespace ELSE item.source
        related_orm_route == orm_route \o orm_field_name \o <<"__">>
        qs == item.qs
        parent_qs1 == IF qs # None THEN qs ELSE parent_qs
        continued(b1) ==
            BuildItems(b1, rest, filter_route, orm_route, model, at, parent_qs1)
        nested(t, related_model) ==
            continued(BuildItems(t.b, item.filters,
                                 related_filter_route \o <<".">>, related_orm_route,
                                 related_model, t.at, parent_qs1))
        related(r) ==
            IF r.status # "ok" THEN Fail(b)
            ELSE nested(_fill_select_tree(b, item.namespace, related_filter_route, at,
                                          TRUE, item.hidden, qs, parent_qs),
                        r.value.related_model)
    IN  related(_get_field(model, orm_field_name, TRUE))

BuildItems(b, items, filter_route, orm_route, model, at, parent_qs) ==
    IF b.error # None \/ items = <<>> THEN b
    ELSE IF Head(items).kind = "namespace"
    THEN NamespaceStep(b, Head(items), Tail(items), filter_route, orm_route, model,
                       at, parent_qs)
    ELSE BuildItems(IF Head(items).kind = "attr"
                    THEN AttrStep(b, Head(items), filter_route, orm_route, model, at,
                                  parent_qs)
                    ELSE FilterStep(b, Head(items), filter_route, orm_route, model, at,
                                    parent_qs),
                    Tail(items), filter_route, orm_route, model, at, parent_qs)

\* _build_filters(self.FILTERS) on the fresh instance of __init__
_build_filters(items) ==
    BuildItems(Building(<<>>, {}, {}, <<>>, {}), items, <<>>, <<>>, MODEL, <<>>, None)

(***************************************************************************)
(* Inputs.                                                                 *)
(***************************************************************************)
ValueChars == {"a", "*", BACKSLASH}
Strings(chars, n) == UNION {[1..k -> chars] : k \in 0..n}

\* every ordering of a finite set of strings
RECURSIVE Orders(_)
Orders(S) ==
    IF S = {} THEN {<<>>}
    ELSE UNION {{<<x>> \o o : o \in Orders(S \ {x})} : x \in S}

PatternValues == Strings(ValueChars, MaxLen)
QuotedValues == {<<q>> \o s \o <<q>> : q \in QUOTES, s \in Strings(ValueChars, 2)}
LiteralValues ==
    {RQL_NULL, RQL_EMPTY, RQL_TRUE, RQL_FALSE, <<"NULL_ID">>,
     <<"1">>, <<"3", "0">>, <<"1", "a">>}
Values == PatternValues \cup QuotedValues \cup LiteralValues

FilterNames == DOMAIN CompiledFilters \cup {<<"nope">>, <<"a">>}
Operators == ComparisonOperators \cup SearchOperators

Init0 ==
    /\ filters = CompiledFilters
    /\ ordering_filters = CompiledOrderingFilters
    /\ search_filters = CompiledSearchFilters
    /\ _select_tree = CompiledSelectTree
    /\ _default_exclusions = CompiledDefaultExclusions
    /\ queryset = BaseQuerySet
    /\ result = [status |-> "none"]

(***************************************************************************)
(* SpecBuild: one call of build_q_for_filter on a constructed instance,    *)
(* with self._is_distinct as an earlier step of the walk may have left it. *)
(***************************************************************************)
BuildCall(filter_name, operator, str_value, list_operator, order) ==
    [op |-> "build_q_for_filter", filter_name |-> filter_name,
     operator |-> operator, str_value |-> str_value,
     list_operator |-> list_operator, order |-> order]

BuildCalls ==
    {BuildCall(f, o, v, None, <<>>) : f \in FilterNames, o \in Operators, v \in Values}
    \cup {BuildCall(f, o, v, l, <<>>) :
              f \in FilterNames, o \in Operators, v \in LiteralValues,
              l \in ListOperators}
    \cup {BuildCall(RQL_SEARCH_PARAM, o, v, None, order) :
              o \in Operators, v \in Values \ {<<>>},
              order \in Orders(CompiledSearchFilters)}

InitBuild ==
    /\ Init0
    /\ _is_distinct \in BOOLEAN
    /\ pc = "call"
    /\ call \in BuildCalls

BuildQForFilter ==
    /\ pc = "call"
    /\ call.op = "build_q_for_filter"
    /\ LET out == build_q_for_filter(call.filter_name, call.operator, call.str_value,
                                     call.list_operator, call.order, _is_distinct)
       IN  /\ result' = out.ret
           /\ _is_distinct' = out.distinct
    /\ pc' = "done"
    /\ UNCHANGED <<registry, queryset, call>>

NextBuild == BuildQForFilter

SpecBuild == InitBuild /\ [][NextBuild]_vars

(***************************************************************************)
(* Properties of build_q_for_filter (SpecBuild).                           *)
(***************************************************************************)
BuildDone == pc = "done" /\ call.op = "build_q_for_filter"
Registered(f) == f \in DOMAIN filters
BaseItem(f) == filters[f].items[1]
\* the lookup kind an operator stands for
LookupOf ==
    [o \in Operators |->
        CASE o = "eq" -> "EQ" [] o = "ne" -> "NE" [] o = "lt" -> "LT" [] o = "le" -> "LE"
          [] o = "gt" -> "GT" [] o = "ge" -> "GE" [] o = "like" -> "LIKE"
          [] o = "ilike" -> "I_LIKE"]
CallLookup == LookupOf[call.operator]
CallDetails == _get_error_details(call.filter_name, CallLookup, call.str_value)

\* the leaves of a predicate
RECURSIVE Leaves(_)
Leaves(q) ==
    CASE q.op = "TRUE" -> {}
      [] q.op = "LEAF" -> {q}
      [] q.op = "NOT" -> Leaves(q.arg)
      [] OTHER -> Leaves(q.left) \cup Leaves(q.right)

\* the truth of a predicate on a record for which exactly the leaves in tau hold
RECURSIVE Eval(_, _)
Eval(q, tau) ==
    CASE q.op = "TRUE" -> TRUE
      [] q.op = "LEAF" -> q \in tau
      [] q.op = "NOT" -> ~Eval(q.arg, tau)
      [] q.op = "AND" -> Eval(q.left, tau) /\ Eval(q.right, tau)
      [] q.op = "OR" -> Eval(q.left, tau) \/ Eval(q.right, tau)

\* C1: for a filter name that is neither the search name nor in the registry,
\* whatever the operator, the raw value and the list operator, build_q_for_filter
\* returns the empty (always true) predicate, raises nothing and leaves
\* self._is_distinct as it was.
C1_UnknownFilterIsNeutral ==
    [][(/\ call.op = "build_q_for_filter"
        /\ call.filter_name # RQL_SEARCH_PARAM
        /\ ~Registered(call.filter_name))
       => (/\ result'.status = "ok"
           /\ result'.value.op = "TRUE"
           /\ _is_distinct' = _is_distinct)]_vars

C1_Witness ==
    /\ BuildDone
    /\ call.filter_name = <<"nope">>
    /\ call.operator = "like"
    /\ call.list_operator = "out"
    /\ call.str_value = RQL_NULL
    /\ result.status = "ok"
    /\ _is_distinct

\* C2: for a fan-out filter with two or more sources the result holds one leaf
\* per source, all with one lookup and one value; for lookup NE a record matches
\* iff the comparison fails on every source (AND of the negated leaves), for every
\* other lookup iff it holds on some source (OR of the leaves).  For a filter with
\* a single source the result is that source's leaf itself (negated for NE).
C2_FanOutCombination ==
    (/\ BuildDone
     /\ Registered(call.filter_name)
     /\ result.status = "ok")
    => LET entry == filters[call.filter_name]
           q == result.value
           leaves == Leaves(q)
           routes == {entry.items[i].orm_route : i \in 1..Len(entry.items)}
       IN  IF entry.multi /\ Len(entry.items) >= 2
           THEN /\ {l.route : l \in leaves} = routes
                /\ Cardinality(leaves) = Len(entry.items)
                /\ \A l1, l2 \in leaves : l1.lookup = l2.lookup /\ l1.value = l2.value
                /\ \A tau \in SUBSET leaves :
                       Eval(q, tau) = IF CallLookup = "NE"
                                      THEN \A l \in leaves : l \notin tau
                                      ELSE \E l \in leaves : l \in tau
           ELSE LET leaf == IF CallLookup = "NE" THEN q.arg ELSE q IN
                /\ q.op = IF CallLookup = "NE" THEN "NOT" ELSE "LEAF"
                /\ leaf.op = "LEAF"
                /\ leaf.route = entry.items[1].orm_route

C2_Witness ==
    /\ BuildDone
    /\ call.filter_name = <<"text">>
    /\ call.operator = "ne"
    /\ call.str_value = <<"a">>
    /\ result.status = "ok"
    /\ result.value.op = "AND"

\* A raw value read left to right, after its quotes are removed: two
\* backslashes are a literal backslash, a backslash and a wildcard are a literal
\* wildcard, a wildcard alone is a wildcard, anything else is itself.
Lit(c) == [wild |-> FALSE, c |-> c]
Wild == [wild |-> TRUE, c |-> RQL_ANY_SYMBOL]
RECURSIVE Scan(_)
Scan(s) ==
    IF s = <<>> THEN <<>>
    ELSE IF Len(s) >= 2 /\ s[1] = BACKSLASH /\ s[2] \in {BACKSLASH, RQL_ANY_SYMBOL}
    THEN <<Lit(s[2])>> \o Scan(SubSeq(s, 3, Len(s)))
    ELSE IF s[1] = RQL_ANY_SYMBOL THEN <<Wild>> \o Scan(Tail(s))
    ELSE <<Lit(s[1])>> \o Scan(Tail(s))
Tokens(str_value) == Scan(remove_quotes(str_value))

Wildcards(ts) == Cardinality({i \in 1..Len(ts) : ts[i].wild})
DoubleWildcard(ts) == \E i \in 1..(Len(ts) - 1) : ts[i].wild /\ ts[i + 1].wild
LeadingWildcard(ts) == ts # <<>> /\ ts[1].wild
TrailingWildcard(ts) == ts # <<>> /\ ts[Len(ts)].wild
\* the literal characters, wildcards left out
RECURSIVE Literal(_)
Literal(ts) ==
    IF ts = <<>> THEN <<>>
    ELSE (IF Head(ts).wild THEN <<>> ELSE <<Head(ts).c>>) \o Literal(Tail(ts))
\* every wildcard as the non-greedy any-characters sub-pattern
RECURSIVE AsRegex(_)
AsRegex(ts) ==
    IF ts = <<>> THEN <<>>
    ELSE (IF Head(ts).wild THEN <<"(.*?)">> ELSE <<Head(ts).c>>) \o AsRegex(Tail(ts))

NullSentinel(f, v) == v \in BaseItem(f).null_values
\* a raw value coerces under the declared type of a field
Coerces(field, v) ==
    LET val == remove_quotes(v) IN
    CASE field.type = "INT" -> val # <<>> /\ \A i \in 1..Len(val) : val[i] \in Digits
      [] field.type = "BOOLEAN" -> val \in {RQL_TRUE, RQL_FALSE}
      [] field.type = "STRING" -> val # RQL_EMPTY \/ field.blank

PlainCall ==
    /\ BuildDone
    /\ Registered(call.filter_name)
    /\ ~BaseItem(call.filter_name).custom
    /\ call.list_operator = None

IsNull(f) == Q(BaseItem(f).orm_route, <<"", "NULL">>, TBool(TRUE))

\* C3 as stated: on a nullable attribute that permits the null lookup, a
\* null-sentinel value gives IS NULL for eq, IS NOT NULL for ne and a lookup error
\* for every other operator, whatever else the permitted set holds.
C3_Original ==
    (/\ PlainCall
     /\ ~filters[call.filter_name].multi
     /\ BaseItem(call.filter_name).field.null
     /\ "NULL" \in BaseItem(call.filter_name).lookups
     /\ NullSentinel(call.filter_name, call.str_value))
    => CASE call.operator = "eq" -> result = Ok(IsNull(call.filter_name))
         [] call.operator = "ne" -> result = Ok(QNot(IsNull(call.filter_name)))
         [] OTHER -> result = RQLFilterLookupError(CallDetails)

\* C3 as amended: on a nullable attribute that permits the null lookup, a
\* null-sentinel value gives IS NULL for eq when EQ is permitted, IS NOT NULL for
\* ne when NE is permitted, and a lookup error for eq or ne when that lookup is
\* not permitted and for every other operator.
C3_NullSentinelLookups ==
    (/\ PlainCall
     /\ ~filters[call.filter_name].multi
     /\ BaseItem(call.filter_name).field.null
     /\ "NULL" \in BaseItem(call.filter_name).lookups
     /\ NullSentinel(call.filter_name, call.str_value))
    => IF CallLookup \in {"EQ", "NE"} \cap BaseItem(call.filter_name).lookups
       THEN result = Ok(IF call.operator = "eq" THEN IsNull(call.filter_name)
                        ELSE QNot(IsNull(call.filter_name)))
       ELSE result = RQLFilterLookupError(CallDetails)

C3_Witness ==
    /\ PlainCall
    /\ call.filter_name = <<"nick">>
    /\ call.str_value = <<"NULL_ID">>
    /\ call.operator = "ne"
    /\ result = Ok(QNot(Q(<<"nick">>, <<"", "NULL">>, TBool(TRUE))))

\* C4 as stated: for a registered filter that is not custom and a raw value that
\* coerces under its declared type, build_q_for_filter succeeds for every operator
\* whose lookup is permitted and raises a lookup error with (filter name, lookup,
\* raw value) for every other operator.
C4_Original ==
    (/\ PlainCall
     /\ Coerces(BaseItem(call.filter_name).field, call.str_value))
    => IF CallLookup \in BaseItem(call.filter_name).lookups
       THEN result.status = "ok"
       ELSE result = RQLFilterLookupError(CallDetails)

\* C4 as amended: for a registered filter that is not custom and a raw value that
\* is none of the filter's null sentinels and not the empty-value sentinel, and
\* that coerces under the filter's declared type (comparison operators) or holds
\* no two consecutive wildcards (like, ilike): build_q_for_filter succeeds for
\* every operator whose lookup is permitted and raises a lookup error with
\* (filter name, lookup, raw value) for every other operator.
C4_PermittedLookups ==
    (/\ PlainCall
     /\ ~NullSentinel(call.filter_name, call.str_value)
     /\ call.str_value # RQL_EMPTY
     /\ IF _is_searching_lookup(CallLookup)
        THEN ~DoubleWildcard(Tokens(call.str_value))
        ELSE Coerces(BaseItem(call.filter_name).field, call.str_value))
    => IF CallLookup \in BaseItem(call.filter_name).lookups
       THEN result.status = "ok"
       ELSE result = RQLFilterLookupError(CallDetails)

C4_Witness ==
    /\ PlainCall
    /\ call.filter_name = <<"age">>
    /\ call.str_value = <<"3", "0">>
    /\ call.operator = "ne"
    /\ result = RQLFilterLookupError(
                    _get_error_details(<<"age">>, "NE", <<"3", "0">>))

\* the tokens between a leading and a trailing wildcard
Inner(ts) ==
    SubSeq(ts, IF LeadingWildcard(ts) THEN 2 ELSE 1,
           IF TrailingWildcard(ts) THEN Len(ts) - 1 ELSE Len(ts))

LikeCall ==
    /\ PlainCall
    /\ CallLookup \in {"LIKE", "I_LIKE"} \cap BaseItem(call.filter_name).lookups
    /\ ~NullSentinel(call.filter_name, call.str_value)
    /\ call.str_value # RQL_EMPTY

\* every leaf of the result compares with this lookup and this string
LeavesCompare(kind, val) ==
    /\ result.status = "ok"
    /\ Leaves(result.value) # {}
    /\ \A l \in Leaves(result.value) :
           /\ l.lookup = <<IF CallLookup = "I_LIKE" THEN "I_" ELSE "", kind>>
           /\ l.value = TStr(val)
           /\ ~Contains(val, star_replacer)

\* C8 as stated: with escaped wildcards not counted, no wildcard gives an exact
\* match on the literal, one leading wildcard ends-with, one trailing wildcard
\* starts-with, two wildcards at the two ends contains, and every other placement
\* a regex anchored with ^ and $ where the value has no leading or trailing
\* wildcard, with every wildcard replaced by (.*?); the value compared holds no
\* nonce and has the escaped wildcards back as literal wildcards.
C8_Original ==
    LikeCall =>
        LET ts == Tokens(call.str_value)
            n == Wildcards(ts)
        IN  CASE n = 0 -> LeavesCompare("EXACT", Literal(ts))
              [] n = 1 /\ LeadingWildcard(ts) -> LeavesCompare("ENDSWITH", Literal(ts))
              [] n = 1 /\ ~LeadingWildcard(ts) /\ TrailingWildcard(ts) ->
                     LeavesCompare("STARTSWITH", Literal(ts))
              [] n = 2 /\ LeadingWildcard(ts) /\ TrailingWildcard(ts) ->
                     LeavesCompare("CONTAINS", Literal(ts))
              [] OTHER ->
                     LeavesCompare("REGEX",
                         (IF LeadingWildcard(ts) THEN <<>> ELSE <<"^">>)
                         \o AsRegex(ts)
                         \o (IF TrailingWildcard(ts) THEN <<>> ELSE <<"$">>))

\* C8 as amended: a value with two consecutive wildcards is a value error.
\* Otherwise, with escaped wildcards not counted: no wildcard gives an exact match
\* on the literal; a value that is one wildcard and nothing else gives the regex
\* (.*?); one leading wildcard gives ends-with, one trailing wildcard starts-with,
\* two wildcards at the two ends contains, all on the literal; every other
\* placement gives a regex anchored with ^ and $ where the value has no leading or
\* trailing wildcard, in which a leading and a trailing wildcard are dropped and
\* every other wildcard is (.*?).  The value compared holds no nonce and has the
\* escaped wildcards back as literal wildcards.
C8_WildcardLookups ==
    LikeCall =>
        LET ts == Tokens(call.str_value)
            n == Wildcards(ts)
        IN  CASE DoubleWildcard(ts) -> result = RQLFilterValueError(CallDetails)
              [] n = 0 -> LeavesCompare("EXACT", Literal(ts))
              [] ts = <<Wild>> -> LeavesCompare("REGEX", <<"(.*?)">>)
              [] n = 1 /\ Len(ts) > 1 /\ LeadingWildcard(ts) ->
                     LeavesCompare("ENDSWITH", Literal(ts))
              [] n = 1 /\ Len(ts) > 1 /\ TrailingWildcard(ts) ->
                     LeavesCompare("STARTSWITH", Literal(ts))
              [] n = 2 /\ ~DoubleWildcard(ts) /\ LeadingWildcard(ts)
                       /\ TrailingWildcard(ts) ->
                     LeavesCompare("CONTAINS", Literal(ts))
              [] OTHER ->
                     LeavesCompare("REGEX",
                         (IF LeadingWildcard(ts) THEN <<>> ELSE <<"^">>)
                         \o AsRegex(Inner(ts))
                         \o (IF TrailingWildcard(ts) THEN <<>> ELSE <<"$">>))

\* an escaped wildcard inside a regex pattern
C8_Witness ==
    /\ LikeCall
    /\ call.filter_name = <<"name">>
    /\ call.operator = "like"
    /\ call.str_value = <<BACKSLASH, "*", "*", "a">>
    /\ result = Ok(Q(<<"name">>, <<"", "REGEX">>,
                     TStr(<<"^", "*", "(.*?)", "a", "$">>)))

\* every backslash of the value escapes a backslash or a wildcard
RECURSIVE WellEscaped(_)
WellEscaped(s) ==
    IF s = <<>> THEN TRUE
    ELSE IF s[1] = BACKSLASH
    THEN Len(s) >= 2 /\ s[2] \in {BACKSLASH, RQL_ANY_SYMBOL}
         /\ WellEscaped(SubSeq(s, 3, Len(s)))
    ELSE WellEscaped(Tail(s))

\* C7: for the search filter with operator eq and a term with no unescaped
\* wildcard (not empty, escaped wildcards allowed), the result is the OR, over every
\* extended search route and every source of every search filter, of a
\* case-insensitive contains on the term.
C7_BareTermIsContains ==
    (/\ BuildDone
     /\ call.filter_name = RQL_SEARCH_PARAM
     /\ call.operator = "eq"
     /\ remove_quotes(call.str_value) # <<>>
     /\ WellEscaped(remove_quotes(call.str_value))
     /\ Wildcards(Tokens(call.str_value)) = 0)
    => /\ result.status = "ok"
       /\ LET q == result.value
              leaves == Leaves(q)
          IN  /\ {l.route : l \in leaves} =
                    {EXTENDED_SEARCH_ORM_ROUTES[i] :
                         i \in 1..Len(EXTENDED_SEARCH_ORM_ROUTES)}
                    \cup UNION {{filters[f].items[i].orm_route :
                                     i \in 1..Len(filters[f].items)} :
                                f \in search_filters}
              /\ \A l \in leaves :
                     /\ l.lookup = <<"I_", "CONTAINS">>
                     /\ l.value = TStr(Literal(Tokens(call.str_value)))
              /\ \A tau \in SUBSET leaves : Eval(q, tau) = (tau # {})

(***************************************************************************)
(* SpecSelect: one call of _build_rql_select on a constructed instance.    *)
(***************************************************************************)
MaxTokens == 3

SelectNames == {<<"a">>, <<"a", ".", "b">>, <<"a", ".", "c">>, <<"a", ".", "d">>,
                <<"nick">>, <<"zz">>}
SelectTokens ==
    SelectNames
    \cup {<<"-">> \o n : n \in SelectNames \ {<<"a", ".", "c">>}}
    \cup {<<"+">> \o n : n \in {<<"a", ".", "b">>, <<"a", ".", "c">>}}
SelectLists == UNION {[1..k -> SelectTokens] : k \in 0..MaxTokens}

InitSelect ==
    /\ Init0
    /\ _is_distinct = DISTINCT
    /\ pc = "call"
    /\ call \in {[op |-> "_build_rql_select", select |-> select] :
                     select \in SelectLists}

BuildRqlSelect ==
    /\ pc = "call"
    /\ call.op = "_build_rql_select"
    /\ result' = _build_rql_select(call.select)
    /\ pc' = "done"
    /\ UNCHANGED <<registry, queryset, _is_distinct, call>>

NextSelect == BuildRqlSelect

SpecSelect == InitSelect /\ [][NextSelect]_vars

(***************************************************************************)
(* Properties of _build_rql_select (SpecSelect).                           *)
(***************************************************************************)
SelectDone == pc = "done" /\ call.op = "_build_rql_select"
Selects(token) == \E i \in 1..Len(call.select) : call.select[i] = token
Includes(name) == Selects(name) \/ Selects(<<"+">> \o name)
Excludes(name) == Selects(<<"-">> \o name)
OnlyIncludes(names) ==
    \A i \in 1..Len(call.select) :
        \E n \in names : call.select[i] \in {n, <<"+">> \o n}

\* C5: on the selection tree with namespace a and leaves a.b, a.c, a.d, a token
\* list that excludes a and includes a.b is rejected whatever the order of the
\* two tokens; a token list that only includes a.b and a.c, both of them, is
\* accepted and maps a, a.b and a.c to included and the sibling a.d to excluded.
C5_SelectionConflict ==
    SelectDone =>
        /\ (Excludes(<<"a">>) /\ Includes(<<"a", ".", "b">>)) => result.status # "ok"
        /\ (/\ OnlyIncludes({<<"a", ".", "b">>, <<"a", ".", "c">>})
            /\ Includes(<<"a", ".", "b">>)
            /\ Includes(<<"a", ".", "c">>))
           => /\ result.status = "ok"
              /\ {<<"a">>, <<"a", ".", "b">>, <<"a", ".", "c">>, <<"a", ".", "d">>}
                     \subseteq DOMAIN result.value
              /\ result.value[<<"a">>]
              /\ result.value[<<"a", ".", "b">>]
              /\ result.value[<<"a", ".", "c">>]
              /\ ~result.value[<<"a", ".", "d">>]

C5_Witness ==
    /\ SelectDone
    /\ call.select = <<<<"a", ".", "b">>, <<"a", ".", "c">>>>
    /\ result = Ok((<<"a">> :> TRUE) @@ (<<"a", ".", "b">> :> TRUE)
                   @@ (<<"a", ".", "c">> :> TRUE) @@ (<<"a", ".", "d">> :> FALSE)
                   @@ (<<"nick">> :> FALSE))

(***************************************************************************)
(* SpecOrdering: one call of _apply_ordering on a constructed instance,    *)
(* with self._is_distinct as the walk of the query left it.                *)
(***************************************************************************)
MaxProps == 3
MaxGroups == 3

OrderingNames == {<<"score">>, <<"name">>, <<"title">>, <<"cust">>, <<"age">>,
                  <<"nope">>}
OrderingTokens == OrderingNames \cup {<<"-">> \o n : n \in OrderingNames \cup {<<>>}}
OrderingGroups == UNION {[1..k -> OrderingTokens] : k \in 0..MaxProps}
\* the groups of a query that carries several of them
SeveralGroups ==
    UNION {[1..k -> {<<>>, <<<<"score">>>>, <<<<"nope">>>>}] : k \in 2..MaxGroups}
OrderingProperties == {<<>>} \cup {<<g>> : g \in OrderingGroups} \cup SeveralGroups

InitOrdering ==
    /\ Init0
    /\ _is_distinct \in BOOLEAN
    /\ pc = "call"
    /\ call \in {[op |-> "_apply_ordering", properties |-> properties] :
                     properties \in OrderingProperties}

ApplyOrdering ==
    /\ pc = "call"
    /\ call.op = "_apply_ordering"
    /\ LET out == _apply_ordering(queryset, call.properties, _is_distinct)
       IN  /\ result' = out.ret
           /\ _is_distinct' = out.distinct
    /\ pc' = "done"
    /\ UNCHANGED <<registry, queryset, call>>

NextOrdering == ApplyOrdering

SpecOrdering == InitOrdering /\ [][NextOrdering]_vars

(***************************************************************************)
(* Properties of _apply_ordering (SpecOrdering).                           *)
(***************************************************************************)
OrderingDone == pc = "done" /\ call.op = "_apply_ordering"
Descending(token) == token # <<>> /\ token[1] = "-"
NameOf(token) == IF Descending(token) THEN Tail(token) ELSE token
Eligible(token) == NameOf(token) \in ordering_filters
IsCustom(token) == \E i \in 1..Len(filters[NameOf(token)].items) :
                       filters[NameOf(token)].items[i].custom
\* the paths of a token: one per source, in declaration order, with its sign
PathsOf(token) ==
    [i \in 1..Len(filters[NameOf(token)].items) |->
        (IF Descending(token) THEN <<"-">> ELSE <<>>)
            \o filters[NameOf(token)].items[i].orm_route]
RECURSIVE PathsOfGroup(_)
PathsOfGroup(group) ==
    IF group = <<>> THEN <<>> ELSE PathsOf(Head(group)) \o PathsOfGroup(Tail(group))

IsParsingError == result.status = "RQLFilterParsingError"
OrderingFrame ==
    /\ Len(call.properties) = 0 => result = Ok(queryset)
    /\ Len(call.properties) > 1 => IsParsingError
    /\ (Len(call.properties) = 1 /\ result.status = "ok")
           => result.value = [queryset EXCEPT !.order_by =
                                  PathsOfGroup(call.properties[1])]
    /\ (Len(call.properties) = 1 /\ result.status # "ok") => IsParsingError

\* C6 as stated: one group succeeds iff every token's name is in the
\* ordering registry.
C6_Original ==
    OrderingDone =>
        /\ OrderingFrame
        /\ Len(call.properties) = 1
               => (result.status = "ok"
                      <=> \A i \in 1..Len(call.properties[1]) :
                              Eligible(call.properties[1][i]))

\* C6: _apply_ordering returns the result set unchanged for zero groups and
\* fails with a parsing error for more than one group; for exactly one group it
\* succeeds iff every token's name (without the descending marker) is in the
\* ordering registry and names no custom filter, and fails with a parsing error
\* otherwise; on success the result set is ordered by one path per source of
\* each named filter, in declaration order, with the token's sign.
C6_OrderingGroups ==
    OrderingDone =>
        /\ OrderingFrame
        /\ Len(call.properties) = 1
               => (result.status = "ok"
                      <=> \A i \in 1..Len(call.properties[1]) :
                              /\ Eligible(call.properties[1][i])
                              /\ ~IsCustom(call.properties[1][i]))

C6_Witness ==
    /\ OrderingDone
    /\ call.properties = <<<<<<"-", "title">>, <<"score">>>>>>
    /\ result.status = "ok"
    /\ result.value.order_by = <<<<"-", "title">>, <<"-", "subtitle">>, <<"score">>>>
    /\ _is_distinct

(***************************************************************************)
(* Spec: a constructed instance on which apply_filters is called again     *)
(* and again.                                                              *)
(***************************************************************************)
MaxCalls == 2

Eq(prop, value) == Comp(<<Arg("prop", prop), Arg("val", value)>>)
Fn(operation, prop, value) ==
    Comp(<<Arg("comp_term", <<operation>>), Arg("prop", prop), Arg("val", value)>>)
Infix(prop, operation, value) ==
    Comp(<<Arg("prop", prop), Arg("comp_term", <<operation>>), Arg("val", value)>>)

Trees ==
    {Eq(<<"age">>, <<"1">>), Eq(<<"score">>, <<"1">>), Eq(<<"nope">>, <<"1">>),
     Eq(<<"age">>, <<"a">>), Eq(RQL_SEARCH_PARAM, <<"a">>),
     Eq(RQL_SEARCH_PARAM, <<"a", "*", "*", "a">>),
     Fn("ne", <<"age">>, <<"1">>), Fn("like", <<"name">>, <<"a", "*", "*", "a">>),
     Fn("like", <<"name">>, <<"a", "*">>), Infix(<<"age">>, "gt", <<"1">>),
     Logical(NOT, <<Eq(<<"age">>, <<"1">>)>>),
     Logical(AND, <<Eq(<<"age">>, <<"1">>), Fn("ne", <<"text">>, <<"a">>)>>),
     Logical(OR, <<Eq(<<"age">>, <<"1">>), Eq(<<"nope">>, <<"1">>),
                   Logical(NOT, <<Eq(<<"active">>, RQL_TRUE)>>)>>),
     Logical(OR, <<Infix(<<"age">>, "lt", <<"1">>), Fn("ne", <<"name">>, <<"a">>)>>),
     Logical(OR, <<Eq(<<"nope">>, <<"1">>), Fn("gt", <<"nope">>, <<"1">>)>>),
     Logical(AND, <<Eq(<<"nope">>, <<"1">>),
                    Logical(OR, <<Fn("eq", <<"title">>, <<"a">>),
                                  Infix(<<"active">>, "ne", RQL_FALSE)>>),
                    Logical(NOT, <<Logical(AND, <<Infix(<<"age">>, "gt", <<"1">>),
                                                  Eq(<<"name">>, <<"a">>)>>)>>)>>)}
QueryOrderings ==
    {<<>>,
     << <<<<"name">>>> >>,
     << <<<<"-", "score">>, <<"title">>>> >>,
     << <<<<"cust">>>> >>,
     << <<<<"age">>>> >>,
     << <<<<"name">>>>, <<<<"score">>>> >>}
QuerySelects ==
    {<<>>, <<<<"a", ".", "b">>>>, <<<<"-", "a">>>>, <<<<"zz">>>>,
     <<<<"-", "a">>, <<"a", ".", "b">>>>}
Queries ==
    {EmptyQuery}
    \cup {Query(tree, <<>>, <<>>) : tree \in Trees}
    \cup {Query(Eq(<<"age">>, <<"1">>), ordering, select) :
              ordering \in QueryOrderings, select \in QuerySelects}

Init ==
    /\ Init0
    /\ _is_distinct = DISTINCT
    /\ pc = "idle"
    /\ call = [op |-> "none"]

ApplyFilters ==
    /\ pc \in {"idle", "done"}
    /\ Len(queryset.preds) < MaxCalls
    /\ \E query \in Queries :
           LET out == apply_filters(queryset, query)
           IN  /\ result' = out.ret
               /\ _is_distinct' = out.distinct
               /\ queryset' = out.queryset
               /\ call' = [op |-> "apply_filters", query |-> query]
    /\ pc' = "done"
    /\ UNCHANGED registry

Next == ApplyFilters

Spec == Init /\ [][Next]_vars

(***************************************************************************)
(* Properties of apply_filters (Spec).                                     *)
(***************************************************************************)
ApplyDone == pc = "done" /\ call.op = "apply_filters"

\* C9: after any sequence of apply_filters calls the registries, the selection
\* tree, the default exclusions and the base result set are what construction
\* left, and the result of each call is the result of the same query on a
\* freshly constructed instance over the original result set.
C9_StatelessEvaluation ==
    /\ filters = CompiledFilters
    /\ ordering_filters = CompiledOrderingFilters
    /\ search_filters = CompiledSearchFilters
    /\ _select_tree = CompiledSelectTree
    /\ _default_exclusions = CompiledDefaultExclusions
    /\ queryset = BaseQuerySet
    /\ ApplyDone => result = apply_filters(BaseQuerySet, call.query).ret

\* C10: a query evaluation that fails, fails with a parsing error, a lookup
\* error or a value error.
C10_TypedErrorsOnly ==
    ApplyDone => result.status \in {"ok"} \cup TypedErrors

(***************************************************************************)
(* Further properties of _build_rql_select (SpecSelect).                   *)
(***************************************************************************)
IsExclude(token) == token # <<>> /\ token[1] = "-"
SelectedName(token) ==
    IF token # <<>> /\ token[1] \in {"-", "+"} THEN Tail(token) ELSE token
\* q is p or a path below p
AtOrBelow(q, p) ==
    \/ q = p
    \/ Len(q) > Len(p) /\ SubSeq(q, 1, Len(p) + 1) = p \o <<".">>

\* C11: a token list in which an exclude token for a path p comes before an
\* include token for p or for a path below p is rejected, and in an accepted
\* list no path named by an exclude token is mapped to included.
C11_ExcludedStaysExcluded ==
    SelectDone =>
        /\ (\E i, j \in 1..Len(call.select) :
                /\ i < j
                /\ IsExclude(call.select[i])
                /\ ~IsExclude(call.select[j])
                /\ AtOrBelow(SelectedName(call.select[j]),
                             SelectedName(call.select[i])))
              => result.status # "ok"
        /\ result.status = "ok"
              => \A i \in 1..Len(call.select) :
                     IsExclude(call.select[i])
                        => ~result.value[SelectedName(call.select[i])]

(***************************************************************************)
(* Further properties of build_q_for_filter (SpecBuild).                   *)
(***************************************************************************)
EmptyCall ==
    /\ BuildDone
    /\ Registered(call.filter_name)
    /\ ~BaseItem(call.filter_name).custom
    /\ call.list_operator = None
    /\ call.str_value = RQL_EMPTY
BlankString(field) == field.type = "STRING" /\ field.blank

ArgOf(node, data) ==
    CHOOSE a \in {node.args[i] : i \in 1..Len(node.args)} : a.data = data
PropOf(node) == ArgOf(node, "prop").value
ValueOf(node) == ArgOf(node, "val").value
OperatorIn(node) ==
    IF \E i \in 1..Len(node.args) : node.args[i].data = "comp_term"
    THEN ArgOf(node, "comp_term").value[1] ELSE "eq"

\* the comparisons of a parse tree
RECURSIVE CompsOf(_)
CompsOf(node) ==
    IF node.type = "comp" THEN {node}
    ELSE UNION {CompsOf(node.children[i]) : i \in 1..Len(node.children)}

\* the registered filters a comparison makes the builder read
FiltersOf(node) ==
    IF PropOf(node) = RQL_SEARCH_PARAM THEN search_filters
    ELSE {PropOf(node)} \cap DOMAIN filters

\* some descriptor the query uses for its predicate or its ordering carries the
\* dedup flag
DedupFlagged(query) ==
    \/ \E c \in CompsOf(query.tree) : \E f \in FiltersOf(c) : BaseItem(f).distinct
    \/ \E g \in 1..Len(query.ordering) : \E i \in 1..Len(query.ordering[g]) :
           /\ Eligible(query.ordering[g][i])
           /\ \E k \in 1..Len(filters[NameOf(query.ordering[g][i])].items) :
                  filters[NameOf(query.ordering[g][i])].items[k].distinct

\* C13: the result set of apply_filters for a non-empty query, on an instance
\* whose result set is the one it was constructed with, is deduplicated iff
\* DISTINCT is set or a descriptor used for the predicate or the ordering
\* carries the dedup flag.
C13_DedupIffFlagged ==
    [][(/\ queryset = BaseQuerySet
        /\ call'.op = "apply_filters"
        /\ ~call'.query.empty
        /\ result'.status = "ok")
       => (result'.value.distinct <=> (DISTINCT \/ DedupFlagged(call'.query)))]_vars

\* the predicate the builder returns for a comparison
LeafPredicate(node) ==
    build_q_for_filter(PropOf(node), OperatorIn(node), ValueOf(node), None,
                       <<<<"name">>, <<"title">>>>, FALSE).ret.value

\* the truth of a parse tree on a record for which exactly the leaves in tau
\* hold: the boolean combination of its comparisons
RECURSIVE Meaning(_, _)
Meaning(node, tau) ==
    IF node.type = "comp" THEN Eval(LeafPredicate(node), tau)
    ELSE IF node.data = NOT THEN ~Meaning(node.children[1], tau)
    ELSE IF node.data = AND
    THEN \A i \in 1..Len(node.children) : Meaning(node.children[i], tau)
    ELSE \E i \in 1..Len(node.children) : Meaning(node.children[i], tau)

\* the predicate of the node is the empty predicate
RECURSIVE IsEmptyPredicate(_)
IsEmptyPredicate(node) ==
    IF node.type = "comp" THEN LeafPredicate(node).op = "TRUE"
    ELSE /\ node.data = OR
         /\ \A i \in 1..Len(node.children) : IsEmptyPredicate(node.children[i])

\* as Meaning, but an OR node leaves out the children whose predicate is empty
RECURSIVE MeaningDroppingEmpty(_, _)
MeaningDroppingEmpty(node, tau) ==
    IF node.type = "comp" THEN Eval(LeafPredicate(node), tau)
    ELSE IF node.data = NOT THEN ~MeaningDroppingEmpty(node.children[1], tau)
    ELSE IF node.data = AND
    THEN \A i \in 1..Len(node.children) : MeaningDroppingEmpty(node.children[i], tau)
    ELSE \/ IsEmptyPredicate(node)
         \/ \E i \in 1..Len(node.children) :
                /\ ~IsEmptyPredicate(node.children[i])
                /\ MeaningDroppingEmpty(node.children[i], tau)

Walked == ApplyDone /\ ~call.query.empty /\ result.status = "ok"
RootPredicate == result.value.preds[Len(result.value.preds)]

MaxItems == 3

ItemPool ==
    << Attr(<<"title">>),
       NamespaceItem(<<"a">>, <<"author">>, FALSE, "SelectRelated(author)",
                     << Attr(<<"b">>),
                        FilterItem(<<"c">>, <<>>, <<>>, {}, {}, "Annotation(c)") >>),
       NamespaceItem(<<"n">>, <<"pub">>, FALSE, None,
                     << FilterItem(<<"m">>, <<>>, <<>>, {}, {"search"},
                                   "PrefetchRelated(m)") >>),
       NamespaceItem(<<"p">>, <<"pub">>, TRUE, "SelectRelated(pub)", << Attr(<<"k">>) >>),
       FilterItem(<<"text">>, <<>>, << <<"title">>, <<"age">> >>, {"EQ", "I_LIKE"},
                  {"search"}, None),
       FilterItem(<<"mixed">>, <<>>, << <<"age">>, <<"title">> >>, {}, {"search"},
                  None),
       FilterItem(<<"age">>, <<>>, <<>>, {}, {"search", "ordering"}, None),
       FilterItem(<<"name">>, <<>>, <<>>, {}, {"search", "ordering"}, None),
       FilterItem(<<"cust">>, <<>>, <<>>, {"EQ"}, {"custom", "search"}, None),
       FilterItem(<<"num">>, <<"age">>, <<>>, {}, {"ordering", "distinct"},
                  "Annotation(num)") >>

\* the declarations of 1..MaxItems different items of the pool, in every order
Declarations ==
    UNION {{[i \in 1..n |-> ItemPool[f[i]]] :
               f \in {g \in [1..n -> 1..Len(ItemPool)] :
                         \A i, j \in 1..n : i # j => g[i] # g[j]}} :
           n \in 1..MaxItems}

CompileQueries ==
    {EmptyQuery}
    \cup {Query(Eq(<<"title">>, <<"a">>), <<>>, select) :
              select \in {<<>>, << <<"-", "a">> >>, << <<"-", "n">> >>,
                          << <<"n", ".", "m">> >>, << <<"a", ".", "b">> >>,
                          << <<"p">> >>, << <<"-", "a", ".", "c">> >>,
                          << <<"-", "num">>, <<"title">> >>}}

InitCompile ==
    /\ filters = <<>>
    /\ ordering_filters = {}
    /\ search_filters = {}
    /\ _select_tree = <<>>
    /\ _default_exclusions = {}
    /\ queryset = BaseQuerySet
    /\ _is_distinct = DISTINCT
    /\ result = [status |-> "none"]
    /\ pc = "call"
    /\ call \in {[op |-> "__init__", FILTERS |-> fs] : fs \in Declarations}

\* __init__: the registries are those _build_filters(self.FILTERS) leaves
Construct ==
    /\ pc = "call"
    /\ call.op = "__init__"
    /\ LET built(b) ==
               IF b.error # None
               THEN /\ result' = AssertionError
                    /\ pc' = "failed"
                    /\ UNCHANGED registry
               ELSE /\ filters' = b.filters
                    /\ ordering_filters' = b.ordering_filters
                    /\ search_filters' = b.search_filters
                    /\ _select_tree' = b._select_tree
                    /\ _default_exclusions' = b._default_exclusions
                    /\ result' = Ok(<<>>)
                    /\ pc' = "built"
       IN  built(_build_filters(call.FILTERS))
    /\ UNCHANGED <<queryset, _is_distinct, call>>

\* apply_filters on the constructed instance
ApplyFiltersConstructed ==
    /\ pc = "built"
    /\ \E query \in CompileQueries :
           LET out == apply_filters(queryset, query)
           IN  /\ result' = out.ret
               /\ _is_distinct' = out.distinct
               /\ queryset' = out.queryset
               /\ call' = [op |-> "apply_filters", query |-> query]
    /\ pc' = "done"
    /\ UNCHANGED registry

NextCompile == Construct \/ ApplyFiltersConstructed

SpecCompile == InitCompile /\ [][NextCompile]_vars


(***************************************************************************)
(* Claims about schema compilation and optimization.                       *)
(***************************************************************************)
Constructed == pc = "built" /\ call.op = "__init__"

\* the name a declaration is registered under
DeclaredName(item) ==
    IF item.kind = "namespace" THEN item.namespace
    ELSE IF item.kind = "attr" THEN item.name ELSE item.filter

\* the hint a node carries: its own hint, re-parented onto the hint of the
\* nearest enclosing namespace that carries one
NearestParent(qs, enclosing_qs) ==
    IF qs # None /\ enclosing_qs # None THEN Reparent(qs, enclosing_qs) ELSE qs

RECURSIVE HintsFromAncestors(_, _, _)
HintsFromAncestors(items, tree, enclosing_qs) ==
    \A i \in 1..Len(items) :
        /\ items[i].kind # "attr" =>
               tree[DeclaredName(items[i])].qs = NearestParent(items[i].qs, enclosing_qs)
        /\ items[i].kind = "attr" => tree[DeclaredName(items[i])].qs = None
        /\ items[i].kind = "namespace" =>
               HintsFromAncestors(items[i].filters, tree[DeclaredName(items[i])].fields,
                                  IF items[i].qs # None THEN items[i].qs
                                  ELSE enclosing_qs)

\* C15: in the compiled selection tree the parent of a node's hint is the hint
\* of its nearest enclosing namespace that carries one, and the hint is left
\* as declared if no ancestor carries a hint; a sibling declared earlier at
\* the same level never contributes.
C15_ParentHintIsAncestor ==
    Constructed => HintsFromAncestors(call.FILTERS, _select_tree, None)

\* the descriptor types of the sources of a declared filter, read from model
SourceFields(item, model) ==
    IF item.sources # <<>>
    THEN {_get_field(model, item.sources[i], FALSE) : i \in 1..Len(item.sources)}
    ELSE {_get_field(model, IF item.source = <<>> THEN item.filter ELSE item.source,
                     FALSE)}

RECURSIVE SearchDeclared(_, _)
SearchDeclared(items, model) ==
    \A i \in 1..Len(items) :
        /\ (items[i].kind = "filter" /\ items[i].search /\ ~items[i].custom
            /\ items[i].field = NoField) =>
               \A r \in SourceFields(items[i], model) :
                   r.status = "ok" /\ r.value.type = "STRING"
        /\ items[i].kind = "namespace" =>
               SearchDeclared(items[i].filters,
                   _get_field(model, IF items[i].source = <<>> THEN items[i].namespace
                                     ELSE items[i].source, TRUE).value.related_model)

\* C16: a declaration compiles only if every source of every non-custom
\* filter with the search flag is string-typed, also for a fan-out filter
\* whose first source is string-typed.
C16_SearchOnlyOnStrings ==
    Constructed => SearchDeclared(call.FILTERS, MODEL)

\* the hints of the nodes whose own path and every ancestor path is included
RECURSIVE IncludedHints(_, _)
IncludedHints(tree, rql_select) ==
    UNION {IF ~Selected(rql_select, tree[name].path) THEN {}
           ELSE (IF tree[name].qs # None THEN {tree[name].qs} ELSE {})
                \cup IncludedHints(tree[name].fields, rql_select) :
           name \in DOMAIN tree}

Optimized ==
    /\ pc = "done"
    /\ call.op = "apply_filters"
    /\ result.status = "ok"

SelectOf(query) == IF query.empty THEN <<>> ELSE query.select

\* C17: after apply_filters the hints applied to the result set are exactly
\* those of the nodes whose own path and all ancestor paths are not excluded
\* in the selection plan, also below a namespace that carries no hint.
C17_HintsOfIncludedNodes ==
    Optimized =>
        result.value.hints = IncludedHints(_select_tree,
                                           _build_rql_select(SelectOf(call.query)).value)

====
